---- MODULE Spec2Model ----
(***************************************************************************)
(* Model of src/helpers/csvUtil.ts: readDataFromCSV(filePath).             *)
(*                                                                         *)
(* One invocation builds a promise, an accumulator `data`, a file read     *)
(* stream (fs.createReadStream) and a CSV parser stream (csv()), pipes the *)
(* first into the second and registers 'data', 'end' and 'error' listeners *)
(* on the value returned by pipe(), which is the parser stream.            *)
(* Every variable is a function over the invocations, since each call      *)
(* creates its own objects inside the promise executor.                    *)
(*                                                                         *)
(* A file is a sequence of lines and a line a sequence of cells: the       *)
(* splitting of a line at the separator is not modelled, the zipping of    *)
(* the cells with the header is (writeRow).  Blank lines are not among the *)
(* modelled inputs.                                                        *)
(*                                                                         *)
(* The test of src/tests/TC002_create_lead.spec.ts is modelled beside it   *)
(* (SpecTest): its awaited page-object calls with their arguments.         *)
(***************************************************************************)
EXTENDS Integers, Sequences, FiniteSets, TLC

\* ---- bounds ------------------------------------------------------------
NumCalls == 2      \* invocations that may be in flight together
MaxLines == 2      \* data lines of a file (the header line comes on top)
MaxCells == 3      \* cells of one data line
MaxCols == 2       \* columns named by a header line
MaxErrors == 2     \* 'error' events one parser stream may raise

Calls == 1..NumCalls
Names == {"a", "b"}
Cells == {"1", "2"}

SeqsUpTo(S, lo, hi) == UNION {[1..n -> S] : n \in lo..hi}

Headers == SeqsUpTo(Names, 1, MaxCols)
\* the data lines: 1 to MaxCells cells, the two cell values alternating from
\* either of them, so that lines differ in length, in content and in the
\* order of their cells
Other(v) == IF v = "1" THEN "2" ELSE "1"

Lines == {[j \in 1..n |-> IF j % 2 = 1 THEN v ELSE Other(v)] : n \in 1..MaxCells, v \in Cells}

\* the files of the bounded domain: an empty file, or a header line
\* followed by up to MaxLines data lines
TextsOver(hs, ls) ==
    {<<>>} \cup {<<h>> \o t : h \in hs, t \in SeqsUpTo(ls, 0, MaxLines)}

MissingFile == [exists |-> FALSE, text |-> <<>>]
NoCall == [exists |-> FALSE, text |-> <<<<"-">>>>]

AllFiles == {MissingFile} \cup
            {[exists |-> TRUE, text |-> t] : t \in TextsOver(Headers, Lines)}

\* the files of concurrent calls: a missing path and two files that differ
\* in their rows and in the number of their rows
ConcFiles == {MissingFile,
              [exists |-> TRUE, text |-> <<<<"a", "b">>, <<"1", "2">>, <<"2", "1">>>>],
              [exists |-> TRUE, text |-> <<<<"a", "b">>, <<"2", "1">>>>]}

AccessErrors == {"ENOENT"}
ReadErrors == {"EIO"}
DecodeErrors == {"EDECODE1", "EDECODE2"}

VARIABLES
    arg,        \* arg[c]: the file the path of call c names
    promise,    \* promise[c]: the promise returned by call c
    data,       \* data[c]: the accumulator array of call c
    fstream,    \* fstream[c]: state of the file read stream
    handle,     \* handle[c]: the file descriptor of the read stream
    pos,        \* pos[c]: lines the file stream has written into the parser
    parser,     \* parser[c]: state of the csv parser stream
    ferr,       \* ferr[c]: the error the file stream has emitted, or ""
    perr,       \* perr[c]: the first error the parser stream has emitted, or ""
    nerr,       \* nerr[c]: 'error' events the parser stream has emitted
    uncaught,   \* uncaught[c]: 'error' events raised with no listener
    \* src/tests/TC002_create_lead.spec.ts
    firstName,  \* the module-level `let firstName`, "" while the module is not loaded
    started,    \* the page-object calls the test body has made, with their argument
    finished,   \* the page-object calls whose await has returned
    aborted     \* an awaited call has thrown and ended the test

csvVars == <<arg, promise, data, fstream, handle, pos, parser, ferr, perr, nerr, uncaught>>

tvars == <<firstName, started, finished, aborted>>

vars == <<csvVars, tvars>>

\* ---- the promise -------------------------------------------------------
PendingPromise == [state |-> "pending", value |-> <<>>, reason |-> ""]

\* variant of reject: a settled promise is settled again
rejectAlways(p, e) == [state |-> "rejected", value |-> <<>>, reason |-> e]

\* resolve and reject of `new Promise((resolve, reject) => ...)`: the first
\* call settles the promise, later calls are ignored
resolve(p, v) ==
    IF p.state = "pending"
    THEN [state |-> "resolved", value |-> v, reason |-> ""]
    ELSE p

reject(p, e) ==
    IF p.state = "pending"
    THEN [state |-> "rejected", value |-> <<>>, reason |-> e]
    ELSE p

\* ---- the listeners -----------------------------------------------------
\* The three .on() calls apply to the value of .pipe(csv()), the parser;
\* nothing is registered on the stream fs.createReadStream returns.
Listeners(stream) ==
    IF stream = "parser" THEN {"data", "end", "error"} ELSE {}

\* variant of OnData: unshift instead of push
pushFront(d, row) == <<row>> \o d

\* .on('data', (row) => { data.push(row) })
OnData(d, row) == Append(d, row)

\* variant of DataAfterRow: one module-level array instead of one per call
OnDataAllShared(dat, c, row) == [k \in DOMAIN dat |-> OnData(dat[k], row)]

\* `data` is declared inside the executor: the listener of call c appends to
\* the array of call c
DataAfterRow(dat, c, row) == [dat EXCEPT ![c] = OnData(@, row)]

\* .on('end', () => { resolve(data) }): the caller is handed the array
\* itself, so what the caller holds is data[c] at every later time, while
\* promise[c].value keeps the contents the array had when it was handed over
OnEnd(p, d) == resolve(p, d)

\* .on('error', (error) => { reject(error) })
OnError(p, e) == reject(p, e)

\* ---- the parser (csv() with default options) ---------------------------
ExtraKey(index) == <<"_0", "_1", "_2", "_3", "_4", "_5", "_6", "_7">>[index + 1]

EmptyRecord == [k \in {} |-> ""]

\* cells.reduce((o, cell, index) => ...): a cell under a header column is
\* stored under the column's name, a cell beyond the header under "_<index>"
RECURSIVE reduceCells(_, _, _, _)
reduceCells(o, hdrs, cells, index) ==
    IF index = Len(cells)
    THEN o
    ELSE LET key == IF index < Len(hdrs) THEN hdrs[index + 1] ELSE ExtraKey(index)
             o2 == [k \in (DOMAIN o) \cup {key} |->
                        IF k = key THEN cells[index + 1] ELSE o[k]]
         IN reduceCells(o2, hdrs, cells, index + 1)

\* variant of writeRow: cells beyond the header are dropped
writeRowDropExtra(hdrs, cells) ==
    reduceCells(EmptyRecord, hdrs,
                SubSeq(cells, 1, IF Len(cells) < Len(hdrs) THEN Len(cells) ELSE Len(hdrs)), 0)

writeRow(hdrs, cells) == reduceCells(EmptyRecord, hdrs, cells, 0)

InitParser == [state |-> "idle", first |-> TRUE, headers |-> <<>>]

\* variant of parseLine: the first line is taken for a data line
parseLineNoHeader(ps, line) ==
    [parser |-> [ps EXCEPT !.first = FALSE], rows |-> <<writeRow(ps.headers, line)>>]

\* the parser takes one line: the first line sets the headers and yields no
\* row, every other line yields one row
parseLine(ps, line) ==
    IF ps.first
    THEN [parser |-> [ps EXCEPT !.first = FALSE, !.headers = line], rows |-> <<>>]
    ELSE [parser |-> ps, rows |-> <<writeRow(ps.headers, line)>>]

\* ---- initial states ----------------------------------------------------
InitRest ==
    /\ promise = [c \in Calls |-> PendingPromise]
    /\ data = [c \in Calls |-> <<>>]
    /\ fstream = [c \in Calls |-> "idle"]
    /\ handle = [c \in Calls |-> "none"]
    /\ pos = [c \in Calls |-> 0]
    /\ parser = [c \in Calls |-> InitParser]
    /\ ferr = [c \in Calls |-> ""]
    /\ perr = [c \in Calls |-> ""]
    /\ nerr = [c \in Calls |-> 0]
    /\ uncaught = [c \in Calls |-> 0]

\* the test module is not loaded
TestIdle ==
    /\ firstName = ""
    /\ started = <<>>
    /\ finished = <<>>
    /\ aborted = FALSE

\* one call, over every file of the bounded domain
Init ==
    /\ \E f \in AllFiles : arg = [c \in Calls |-> IF c = 1 THEN f ELSE NoCall]
    /\ InitRest
    /\ TestIdle

\* every call is made, each on a file of its own
InitConc ==
    /\ arg \in [Calls -> ConcFiles]
    /\ InitRest
    /\ TestIdle

\* ---- actions -----------------------------------------------------------
\* readDataFromCSV(filePath): the promise executor runs to its end
Invoke(c) ==
    /\ arg[c] # NoCall
    /\ fstream[c] = "idle"
    /\ promise' = [promise EXCEPT ![c] = PendingPromise]
    /\ data' = [data EXCEPT ![c] = <<>>]
    /\ fstream' = [fstream EXCEPT ![c] = "opening"]
    /\ parser' = [parser EXCEPT ![c].state = "active"]
    /\ UNCHANGED <<tvars, arg, handle, pos, ferr, perr, nerr, uncaught>>

\* the file stream opens the file
FileOpened(c) ==
    /\ fstream[c] = "opening"
    /\ arg[c].exists
    /\ fstream' = [fstream EXCEPT ![c] = "flowing"]
    /\ handle' = [handle EXCEPT ![c] = "open"]
    /\ UNCHANGED <<tvars, arg, promise, data, pos, parser, ferr, perr, nerr, uncaught>>

\* variant of FileStreamError: the error is caught and the file opened again
FileStreamErrorRetry(c, e) ==
    /\ ferr' = [ferr EXCEPT ![c] = e]
    /\ fstream' = [fstream EXCEPT ![c] = "opening"]
    /\ UNCHANGED <<promise, uncaught>>

\* the file stream emits 'error' e: the listener of the stream runs if
\* there is one, otherwise the event is raised as an uncaught fault
FileStreamError(c, e) ==
    /\ ferr' = [ferr EXCEPT ![c] = e]
    /\ fstream' = [fstream EXCEPT ![c] = "errored"]
    /\ IF "error" \in Listeners("file")
       THEN /\ promise' = [promise EXCEPT ![c] = OnError(@, e)]
            /\ UNCHANGED uncaught
       ELSE /\ uncaught' = [uncaught EXCEPT ![c] = @ + 1]
            /\ UNCHANGED promise

\* the open fails: no handle is obtained; pipe() does not end or destroy
\* the parser when its source fails
FileOpenError(c) ==
    /\ fstream[c] = "opening"
    /\ ~arg[c].exists
    /\ \E e \in AccessErrors : FileStreamError(c, e)
    /\ UNCHANGED <<tvars, arg, data, handle, pos, parser, perr, nerr>>

\* a read of the open file fails; the handle is closed later (autoClose)
FileReadError(c) ==
    /\ fstream[c] = "flowing"
    /\ \E e \in ReadErrors : FileStreamError(c, e)
    /\ UNCHANGED <<tvars, arg, data, handle, pos, parser, perr, nerr>>

\* the file stream delivers the next line, pipe() writes it into the
\* parser, and each row the parser pushes is emitted as 'data'
FileChunk(c) ==
    /\ fstream[c] = "flowing"
    /\ parser[c].state = "active"
    /\ pos[c] < Len(arg[c].text)
    /\ LET out == parseLine(parser[c], arg[c].text[pos[c] + 1])
       IN /\ parser' = [parser EXCEPT ![c] = out.parser]
          /\ data' = IF out.rows # <<>> /\ "data" \in Listeners("parser")
                     THEN DataAfterRow(data, c, out.rows[1])
                     ELSE data
    /\ pos' = [pos EXCEPT ![c] = @ + 1]
    /\ UNCHANGED <<tvars, arg, promise, fstream, handle, ferr, perr, nerr, uncaught>>

\* the file stream reaches the end of the file: pipe() ends the parser
FileEnd(c) ==
    /\ fstream[c] = "flowing"
    /\ pos[c] = Len(arg[c].text)
    /\ fstream' = [fstream EXCEPT ![c] = "ended"]
    /\ parser' = [parser EXCEPT ![c].state =
                     IF parser[c].state = "active" THEN "finishing" ELSE @]
    /\ UNCHANGED <<tvars, arg, promise, data, handle, pos, ferr, perr, nerr, uncaught>>

\* autoClose: the read stream closes its descriptor after 'end' or 'error'
FileClose(c) ==
    /\ fstream[c] \in {"ended", "errored"}
    /\ handle[c] = "open"
    /\ handle' = [handle EXCEPT ![c] = "closed"]
    /\ UNCHANGED <<tvars, arg, promise, data, fstream, pos, parser, ferr, perr, nerr, uncaught>>

\* variant of ParserEnd: resolve(data) runs on an event that comes before
\* the parser's last row
ParserEndEarly(c) ==
    /\ parser[c].state \in {"active", "finishing"}
    /\ parser' = [parser EXCEPT ![c].state = IF @ = "finishing" THEN "ended" ELSE @]
    /\ promise' = [promise EXCEPT ![c] = OnEnd(@, data[c])]
    /\ UNCHANGED <<tvars, arg, data, fstream, handle, pos, ferr, perr, nerr, uncaught>>

\* the parser has flushed: it emits 'end'
ParserEnd(c) ==
    /\ parser[c].state = "finishing"
    /\ parser' = [parser EXCEPT ![c].state = "ended"]
    /\ promise' = IF "end" \in Listeners("parser")
                  THEN [promise EXCEPT ![c] = OnEnd(@, data[c])]
                  ELSE promise
    /\ UNCHANGED <<tvars, arg, data, fstream, handle, pos, ferr, perr, nerr, uncaught>>

\* the parser stream emits 'error' e
ParserStreamError(c, e) ==
    /\ perr' = [perr EXCEPT ![c] = IF @ = "" THEN e ELSE @]
    /\ nerr' = [nerr EXCEPT ![c] = @ + 1]
    /\ IF "error" \in Listeners("parser")
       THEN /\ promise' = [promise EXCEPT ![c] = OnError(@, e)]
            /\ UNCHANGED uncaught
       ELSE /\ uncaught' = [uncaught EXCEPT ![c] = @ + 1]
            /\ UNCHANGED promise

\* the parser fails on the content it is given, or while flushing; pipe()
\* then unpipes the file stream, which stays paused with its handle
DecodeError(c) ==
    /\ \/ /\ parser[c].state = "active"
          /\ fstream[c] = "flowing"
          /\ pos[c] < Len(arg[c].text)
       \/ parser[c].state = "finishing"
    /\ \E e \in DecodeErrors : ParserStreamError(c, e)
    /\ parser' = [parser EXCEPT ![c].state = "errored"]
    /\ fstream' = [fstream EXCEPT ![c] = IF @ = "flowing" THEN "paused" ELSE @]
    /\ UNCHANGED <<tvars, arg, data, handle, pos, ferr>>

\* the listener is registered with .on and never removed: it runs again
\* for every further 'error' the parser stream raises
DecodeErrorAgain(c) ==
    /\ parser[c].state = "errored"
    /\ nerr[c] < MaxErrors
    /\ \E e \in DecodeErrors : ParserStreamError(c, e)
    /\ UNCHANGED <<tvars, arg, data, fstream, handle, pos, parser, ferr>>

\* the events of call c other than a repeated parser error
CallProgress(c) ==
    \/ Invoke(c)
    \/ FileOpened(c)
    \/ FileOpenError(c)
    \/ FileReadError(c)
    \/ FileChunk(c)
    \/ FileEnd(c)
    \/ FileClose(c)
    \/ ParserEnd(c)
    \/ DecodeError(c)

CallNext(c) == CallProgress(c) \/ DecodeErrorAgain(c)

Next == \E c \in Calls : CallNext(c)

Spec == Init /\ [][Next]_vars

SpecConc == InitConc /\ [][Next]_vars

\* ---- the test ' creating Lead' (src/tests/TC002_create_lead.spec.ts) ------
\* what FakerData may return
FirstNames == {"Ada", "Ben", "Cleo"}
LastNames == {"Diaz", "Eco", "Fry"}
CityNames == {"Oslo", "Pune", "Rome"}

\* variant of Awaited: the call before was made without await
StartedOnly(prev) == \E i \in 1..Len(started) : started[i].step = prev

\* `await prev(...)` has returned: the statement after it may run
Awaited(prev) == finished # <<>> /\ finished[Len(finished)] = prev

\* the statement `await step(arg)` of the test body starts: the statement
\* before it (none for the first one) has completed and no call has thrown
CallStep(step, prev, a) ==
    /\ firstName # ""
    /\ ~aborted
    /\ IF prev = "" THEN started = <<>> ELSE Awaited(prev)
    /\ \A i \in 1..Len(started) : started[i].step # step
    /\ started' = Append(started, [step |-> step, arg |-> a])
    /\ UNCHANGED <<csvVars, firstName, finished, aborted>>

Login_salesforceLogin == CallStep("salesforceLogin", "", "ADMINLOGIN")
Home_appLauncher == CallStep("appLauncher", "salesforceLogin", "")
Home_viewAll == CallStep("viewAll", "appLauncher", "")
Home_searchApp == CallStep("searchApp", "viewAll", "Leads")
Home_selectApp == CallStep("selectApp", "searchApp", "Leads")
Lead_newButton == CallStep("newButton", "selectApp", "")
Lead_salutation == CallStep("salutation", "newButton", "Mr.")
Lead_firstName == CallStep("firstName", "salutation", firstName)
Lead_lastName == \E n \in LastNames : CallStep("lastName", "firstName", n)
Lead_Company == \E n \in CityNames : CallStep("Company", "lastName", n)
Lead_saveButton == CallStep("saveButton", "Company", "")
Lead_verifiTheLeadAccount == CallStep("verifiTheLeadAccount", "saveButton", firstName)

Running == {started[i].step : i \in 1..Len(started)} \ {finished[i] : i \in 1..Len(finished)}

\* the promise of a call that was made resolves
StepReturns ==
    /\ ~aborted
    /\ \E st \in Running : finished' = Append(finished, st)
    /\ UNCHANGED <<csvVars, firstName, started, aborted>>

\* the promise of an awaited call rejects: the test body ends there
StepThrows ==
    /\ ~aborted
    /\ Running # {}
    /\ aborted' = TRUE
    /\ UNCHANGED <<csvVars, firstName, started, finished>>

\* module load: `let firstName = FakerData.getFirstName()` has run once
InitTest ==
    /\ arg = [c \in Calls |-> NoCall]
    /\ InitRest
    /\ firstName \in FirstNames
    /\ started = <<>>
    /\ finished = <<>>
    /\ aborted = FALSE

NextTest ==
    \/ Login_salesforceLogin
    \/ Home_appLauncher
    \/ Home_viewAll
    \/ Home_searchApp
    \/ Home_selectApp
    \/ Lead_newButton
    \/ Lead_salutation
    \/ Lead_firstName
    \/ Lead_lastName
    \/ Lead_Company
    \/ Lead_saveButton
    \/ Lead_verifiTheLeadAccount
    \/ StepReturns
    \/ StepThrows

SpecTest == InitTest /\ [][NextTest]_vars

\* ---- what the claims speak of -------------------------------------------
Invoked(c) == fstream[c] # "idle"

\* an 'error' event has been raised by one of the two streams of call c
Signalled(c) == ferr[c] # "" \/ perr[c] # ""

FirstError(c) == IF perr[c] # "" THEN perr[c] ELSE ferr[c]

\* no stream of call c has an event left to deliver (a parser that has
\* raised an error need not raise another)
Quiescent(c) == ~ENABLED CallProgress(c)

Min(a, b) == IF a < b THEN a ELSE b

KeyAt(h, j) == IF j <= Len(h) THEN h[j] ELSE ExtraKey(j - 1)

\* the record a data line stands for, read off the line position by position
RowOf(h, line) ==
    [k \in {KeyAt(h, j) : j \in 1..Len(line)} |->
        line[CHOOSE j \in 1..Len(line) :
                /\ KeyAt(h, j) = k
                /\ \A j2 \in 1..Len(line) : KeyAt(h, j2) = k => j2 <= j]]

\* the Dataset of a file: one record per line after the header, in line order
DatasetOf(text) ==
    IF Len(text) <= 1 THEN <<>>
    ELSE [i \in 1..(Len(text) - 1) |-> RowOf(text[1], text[i + 1])]

Range(f) == {f[x] : x \in DOMAIN f}

\* ---- C1 ----------------------------------------------------------------
\* C1: a load whose streams raise no error resolves, once every stream event
\* has been delivered, and the resolved array holds exactly one record per
\* data line, the i-th record being the one of the i-th data line; the
\* promise is resolved only when every line has been consumed and appended.
C1_RowsInFileOrder ==
    \A c \in Calls :
        /\ promise[c].state = "resolved" =>
              /\ pos[c] = Len(arg[c].text)
              /\ promise[c].value = data[c]
              /\ Len(promise[c].value) = Len(DatasetOf(arg[c].text))
              /\ \A i \in 1..Len(promise[c].value) :
                     promise[c].value[i] = DatasetOf(arg[c].text)[i]
        /\ (Invoked(c) /\ Quiescent(c) /\ ~Signalled(c)) =>
              promise[c].state = "resolved"

C1_Witness ==
    /\ arg[1].text = <<<<"a", "b">>, <<"1", "2">>, <<"2", "1">>>>
    /\ promise[1].state = "resolved"
    /\ promise[1].value = <<[a |-> "1", b |-> "2"], [a |-> "2", b |-> "1"]>>

\* ---- C2 ----------------------------------------------------------------
\* C2: when the path cannot be opened, the promise is rejected with the
\* access error the file read stream raised.
C2_MissingFileRejects ==
    \A c \in Calls :
        (~arg[c].exists /\ ferr[c] \in AccessErrors) =>
            /\ promise[c].state = "rejected"
            /\ promise[c].reason = ferr[c]

\* ---- C3 ----------------------------------------------------------------
\* C3: once the file stream or the decoder has signalled an error, the
\* promise is rejected with that error, and it is not resolved.
C3_ErrorRejects ==
    \A c \in Calls :
        Signalled(c) =>
            /\ promise[c].state = "rejected"
            /\ promise[c].reason = FirstError(c)

\* ---- C4 ----------------------------------------------------------------
\* C4: no invocation is left pending: when every event of its streams has
\* been delivered, the promise is resolved or rejected.
C4_EventuallySettles ==
    \A c \in Calls :
        (Invoked(c) /\ Quiescent(c)) => promise[c].state \in {"resolved", "rejected"}

\* ---- C5 ----------------------------------------------------------------
\* C5: no 'error' event of either stream of the pipeline is raised without
\* a listener.
C5_NoUncaughtError ==
    \A c \in Calls : uncaught[c] = 0

\* ---- C6 ----------------------------------------------------------------
\* C6: when a call has finished, on success or on failure, its file handle
\* is not left open.
C6_HandleReleased ==
    \A c \in Calls :
        (Quiescent(c) /\ promise[c].state # "pending") => handle[c] # "open"

\* ---- C7 ----------------------------------------------------------------
\* C7: under every interleaving of concurrent calls, a resolved call holds
\* the rows of its own file in its own order, and a call is rejected only by
\* an error of its own parser, with that error.
C7_CallsIndependent ==
    \A c \in Calls :
        /\ promise[c].state = "resolved" =>
              promise[c].value = DatasetOf(arg[c].text)
        /\ promise[c].state = "rejected" =>
              /\ perr[c] # ""
              /\ promise[c].reason = perr[c]
        /\ Len(data[c]) <= Len(DatasetOf(arg[c].text))

C7_Witness ==
    \E c, d \in Calls :
        /\ c # d
        /\ arg[c].text # arg[d].text
        /\ promise[c].state = "resolved"
        /\ Len(promise[c].value) = 2
        /\ promise[d].state = "rejected"
        /\ Len(data[d]) = 1

\* ---- C8 ----------------------------------------------------------------
\* C8: a settled promise keeps its outcome and its value in every later
\* step.
C8_SettledOnce ==
    [][\A c \in Calls :
          promise[c].state # "pending" => promise'[c] = promise[c]]_vars

C8_Witness ==
    \E c \in Calls :
        /\ promise[c].state = "rejected"
        /\ nerr[c] >= 2
        /\ promise[c].reason = perr[c]

\* ---- C9 ----------------------------------------------------------------
\* C9 as stated: every record of a resolved Dataset has exactly the header's
\* fields as its keys.
C9_HeaderKeySet ==
    \A c \in Calls :
        promise[c].state = "resolved" =>
            \A i \in 1..Len(promise[c].value) :
                DOMAIN promise[c].value[i] = Range(arg[c].text[1])

\* C9 as amended: the record of a data line with k fields under a header of
\* n fields has the first min(n, k) header names as keys and, for each field
\* position j beyond the header, the key "_j" (counted from 0); it has the
\* header's key set when k = n.
C9_KeysByLineLength ==
    \A c \in Calls :
        promise[c].state = "resolved" =>
            \A i \in 1..Len(promise[c].value) :
                LET h == arg[c].text[1]
                    line == arg[c].text[i + 1]
                    r == promise[c].value[i]
                IN /\ DOMAIN r = {h[j] : j \in 1..Min(Len(h), Len(line))}
                                   \cup {ExtraKey(j - 1) : j \in (Len(h) + 1)..Len(line)}
                   /\ Len(line) = Len(h) => DOMAIN r = Range(h)

C9_Witness ==
    /\ promise[1].state = "resolved"
    /\ arg[1].text = <<<<"a", "b">>, <<"1">>, <<"1", "2", "1">>>>
    /\ promise[1].value = <<[a |-> "1"], ("a" :> "1") @@ ("b" :> "2") @@ ("_2" :> "1")>>

\* ---- C10 ---------------------------------------------------------------
\* C10: a load of an empty file or of a file with only a header line, whose
\* streams raise no error, is not rejected, is resolved when every stream
\* event has been delivered, and resolves with the empty sequence.
C10_HeaderOnlyIsEmpty ==
    \A c \in Calls :
        (arg[c].exists /\ Len(arg[c].text) <= 1) =>
            /\ promise[c].state = "resolved" => promise[c].value = <<>>
            /\ ~Signalled(c) => promise[c].state # "rejected"
            /\ (Invoked(c) /\ Quiescent(c) /\ ~Signalled(c)) =>
                  promise[c].state = "resolved"

C10_Witness ==
    /\ arg[1].exists
    /\ Len(arg[1].text) = 1
    /\ promise[1].state = "resolved"
    /\ promise[1].value = <<>>
    /\ pos[1] = 1

\* ---- C11 ---------------------------------------------------------------
\* the rows the parser of call c has emitted so far
RowsDelivered(c) == IF pos[c] = 0 THEN 0 ELSE pos[c] - 1

\* C11: two calls on the same file, run one after the other or interleaved,
\* resolve with equal Datasets (same length, same records in the same
\* order); the two are held in two arrays, each of which holds the rows of
\* its own call only.
C11_Idempotent ==
    \A c, d \in Calls :
        (c # d /\ arg[c] = arg[d]) =>
            /\ (promise[c].state = "resolved" /\ promise[d].state = "resolved") =>
                  /\ Len(promise[c].value) = Len(promise[d].value)
                  /\ \A i \in 1..Len(promise[c].value) :
                         promise[c].value[i] = promise[d].value[i]
            /\ Len(data[c]) = RowsDelivered(c)
            /\ Len(data[d]) = RowsDelivered(d)

C11_Witness ==
    \E c, d \in Calls :
        /\ c # d
        /\ arg[c] = arg[d]
        /\ promise[c].state = "resolved"
        /\ promise[d].state = "resolved"
        /\ Len(promise[c].value) = 2
        /\ promise[c].value = promise[d].value

\* ---- C12 ---------------------------------------------------------------
\* C12: a call whose file is inaccessible is rejected with an access error,
\* a call whose content cannot be decoded is rejected with a decode error,
\* and the two kinds of rejection value are different.
C12_ErrorKindsDistinguished ==
    /\ AccessErrors \cap DecodeErrors = {}
    /\ \A c \in Calls :
          /\ ferr[c] \in AccessErrors =>
                /\ promise[c].state = "rejected"
                /\ promise[c].reason \in AccessErrors
          /\ perr[c] # "" =>
                /\ promise[c].state = "rejected"
                /\ promise[c].reason \in DecodeErrors

\* ---- C13 ---------------------------------------------------------------
\* C13: in every step of a call the file is opened at most once (a stream
\* past its opening never opens again, a handle is obtained only by that
\* opening), the lines are consumed one at a time and each row appended is
\* the row of the next line of the file, and once an error has been raised
\* no line is consumed, no row appended and the parser is not restarted.
C13_SinglePassNoRetry ==
    [][\A c \in Calls :
          /\ fstream'[c] = "opening" => fstream[c] \in {"idle", "opening"}
          /\ (handle'[c] = "open" /\ handle[c] # "open") =>
                (handle[c] = "none" /\ fstream[c] = "opening")
          /\ pos'[c] = pos[c] \/ pos'[c] = pos[c] + 1
          /\ \/ data'[c] = data[c]
             \/ /\ pos[c] >= 1
                /\ pos'[c] = pos[c] + 1
                /\ data'[c] = Append(data[c], DatasetOf(arg[c].text)[pos[c]])
          /\ Signalled(c) =>
                /\ pos'[c] = pos[c]
                /\ data'[c] = data[c]
                /\ parser'[c].first = parser[c].first
                /\ parser'[c].headers = parser[c].headers]_vars

C13_Witness ==
    \E c \in Calls :
        /\ ferr[c] \in ReadErrors
        /\ pos[c] = 2
        /\ Len(data[c]) = 1
        /\ handle[c] = "closed"
        /\ Quiescent(c)

\* ---- C14 ---------------------------------------------------------------
\* C14: once the promise of a call is resolved, no step changes the array
\* the caller was handed: it stays equal to the Dataset of the moment of
\* resolution.
C14_ResolvedArrayFinal ==
    [][\A c \in Calls :
          promise[c].state = "resolved" =>
              /\ data'[c] = data[c]
              /\ data'[c] = promise[c].value]_vars

C14_Witness ==
    \E c \in Calls :
        /\ promise[c].state = "resolved"
        /\ Len(promise[c].value) = 2
        /\ data[c] = promise[c].value
        /\ handle[c] = "closed"
        /\ Quiescent(c)

\* ---- C15 ---------------------------------------------------------------
\* the order in which the test is said to run its steps
StatedOrder ==
    <<"salesforceLogin", "appLauncher", "viewAll", "searchApp", "selectApp",
      "newButton", "salutation", "firstName", "lastName", "Company",
      "saveButton", "verifiTheLeadAccount">>

\* C15: the steps start in the stated order, a step starts only when every
\* step before it has completed, the verification starts only after the
\* save has completed, and it is given the value that was typed into the
\* first-name field, which is the value generated when the module was loaded.
C15_StepsInOrder ==
    /\ Len(started) <= Len(StatedOrder)
    /\ \A i \in 1..Len(started) : started[i].step = StatedOrder[i]
    /\ \A i \in 1..Len(finished) : finished[i] = StatedOrder[i]
    /\ Len(finished) <= Len(started)
    /\ Len(started) <= Len(finished) + 1
    /\ Len(started) >= 8 => started[8].arg = firstName
    /\ Len(started) = 12 =>
          /\ Len(finished) >= 11
          /\ finished[11] = "saveButton"
          /\ started[12].arg = started[8].arg
          /\ started[12].arg = firstName

C15_Witness ==
    /\ Len(finished) = 12
    /\ finished[12] = "verifiTheLeadAccount"
    /\ started[12].arg = firstName
    /\ firstName \in FirstNames

====
